---- MODULE Spec2Model ----
(***************************************************************************)
(* Frame-timing telemetry pipeline of crates/timings/src/lib.rs:           *)
(* the enable flag, the reporter and its thin handle, the channel, the     *)
(* per-frame state machine, the window of in-flight frames drained by      *)
(* ProcessTimingEventsSystem::run, and the bounded history of samples.     *)
(***************************************************************************)
EXTENDS Integers, Sequences, FiniteSets, TLC

VARIABLES
    ENABLED_FLAG,   \* static ENABLED: AtomicBool
    thin,           \* the thin reporter handle last obtained with reporter()
    chan,           \* events queued on the flume channel, oldest first
    frames,         \* ProcessTimingEventsSystem.frames, front first
    samples,        \* the samples() resource, oldest first
    now,            \* the value Instant::now() returns
    panicked,       \* whether run() hit an unwrap() of None
    receiver,       \* whether the channel's Receiver (the Reporter) still exists
    pc,             \* where the tick driver is in run(): "idle" or "draining"
    pending_samples, \* pending_samples of the run() under way
    wrap_pc,        \* where the SystemWrapper is in run(): "idle" or "running"
    r,              \* the thin handle r of the SystemWrapper::run under way
    held,           \* the events whose time is taken and that are not yet sent
    frame,          \* a Frame on its own, outside any window
    given,          \* the TimingEvent last given to frame
    canon,          \* how many events frame got, when they came in canonical order
    pos,            \* per source frame slot: the stage its frame reports next
    rounds,         \* per source frame slot: the frames it has completed
    sent,           \* report_event calls made so far
    drains,         \* App-context runs so far, counted up to DrainCap
    pushed,         \* samples handed to the history so far
    quiet,          \* report_event calls since the flag was false and the
                    \* channel empty, with the flag false ever since; or Off
    early,          \* source events reported before the frame ahead had moved on
    batch,          \* events of the in-order batch reported so far, or Off
    op,             \* the operation that made the last step
    acquired,       \* the value of the flag when thin was obtained
    applied,        \* the events run() has taken off the channel, in order
    accepted,       \* the stages of the events frame has accepted
    twin            \* the window and pending samples of one run() that is
                    \* given every event reported so far

vars == <<ENABLED_FLAG, thin, chan, frames, samples, now, panicked,
          receiver, pc, pending_samples, wrap_pc, r, held,
          frame, given, canon, pos, rounds, sent, drains, pushed,
          quiet, early, batch, op, acquired, applied, accepted, twin>>

\* the program's state, and what only observes it
prog == <<ENABLED_FLAG, thin, chan, frames, samples, now, panicked>>
unit == <<frame, given, canon>>
source == <<pos, rounds>>
ghost == <<sent, drains, pushed, quiet, early>>
\* the receiver, and the calls that take more than one step
threads == <<receiver, pc, pending_samples, wrap_pc, r, held>>
notes == <<batch, op, acquired, applied, accepted, twin>>

----------------------------------------------------------------------------
(* Bounds of the model *)

\* report_event calls in a behaviour of Spec
MaxEvents == 3
\* largest value of the clock in Spec
MaxTime == 1
\* events queued on the channel at once in Spec
MaxChan == 2
\* largest timestamp given to the Frame of SpecFrame
FrameMaxTime == 2
\* report_event calls in a behaviour of SpecWindow
WindowEvents == 9
\* events queued on the channel at once in SpecWindow
WindowChan == 2
\* source frames interleaved in SpecInterleave
InterleaveFrames == 3
\* source events of SpecInterleave that may come early
MaxEarly == 1
\* events queued on the channel at once in SpecInterleave
InterleaveChan == 1
\* frames reported one after the other in SpecHistory
HistoryFrames == 130
\* events queued on the channel at once in SpecHistory
HistoryChan == 18
\* App-context runs are counted up to this number
DrainCap == 2
\* events reported in any order before the batch of SpecShrink
ShrinkEvents == 7
\* events queued on the channel at once in SpecShrink
ShrinkChan == 2
\* frames the source of SpecTick reports
TickFrames == 2
\* events queued on the channel at once in SpecTick
TickChan == 12
\* producers sending at the same time in SpecProducers
Producers == 2
\* events each producer of SpecProducers sends
ProducerEvents == 2
\* report_event calls in a behaviour of SpecHandle
HandleEvents == 3
\* runs of the wrapped system in a behaviour of SpecWrapper
WrapRuns == 2
\* largest value of the clock in SpecWrapper
WrapTime == 2
\* events queued on the channel at once in SpecWrapper
WrapChan == 4
\* events reported in any order before the batch of SpecSteps
StepEvents == 5
\* events queued on the channel at once in SpecSteps
StepChan == 2
\* frames the source of SpecPartition reports
PartFrames == 130
\* events of any stage reported before the first frame in SpecPartition
PartStray == 3
\* events queued on the channel at once in SpecPartition
PartChan == 3
\* Input events the input thread of SpecClock reports
ClockInputs == 2
\* largest value of the clock in SpecClock
ClockTime == 2
\* events queued on the channel at once in SpecClock
ClockChan == 2
\* frames each of the two sources of SpecAlternate reports
AlternateRounds == 2
\* events queued on the channel at once in SpecAlternate
AlternateChan == 2

----------------------------------------------------------------------------
(* TimingEventType, lib.rs:17-39 *)

MAX_SAMPLES == 128

Input == 0
ScriptingStarted == 1
ScriptingFinished == 2
ClientSystemsStarted == 3
ClientSystemsFinished == 4
DrawingWorld == 5
DrawingUI == 6
SubmittingGPUCommands == 7
RenderingFinished == 8

last == RenderingFinished

COUNT == last + 1

TimingEventType == 0 .. (COUNT - 1)

\* the stages a SystemWrapper was given by wrap_system
on_started == ScriptingStarted

on_finished == ScriptingFinished

\* Option::None of an Option<Instant> slot
None == -1

\* the value of quiet outside such a period
Off == 0 - 1

WorldContext == {"App", "Client"}

----------------------------------------------------------------------------
(* TimingEvent and Frame, lib.rs:41-130 *)

TimingEvent(event_type, time) == [event_type |-> event_type, time |-> time]

\* Option::or on a slot
OptionOr(slot, time) == IF slot /= None THEN slot ELSE time

Frame_default ==
    [last_event_type |-> Input,
     event_times |-> [s \in TimingEventType |-> None]]

\* should_accept_event without the repeated-Input case
should_accept_event_no_repeat(f, event_type) ==
    \/ f.last_event_type + 1 = event_type
    \/ (f.last_event_type = SubmittingGPUCommands /\ event_type = RenderingFinished)

\* should_accept_event letting DrawingUI skip to RenderingFinished as well
should_accept_event_skip_two(f, event_type) ==
    \/ f.last_event_type + 1 = event_type
    \/ (f.last_event_type = Input /\ event_type = Input)
    \/ (f.last_event_type >= DrawingUI /\ event_type = RenderingFinished)

\* should_accept_event letting a finished Frame start again on Input
should_accept_event_restart(f, event_type) ==
    \/ f.last_event_type + 1 = event_type
    \/ (f.last_event_type \in {Input, RenderingFinished} /\ event_type = Input)
    \/ (f.last_event_type = SubmittingGPUCommands /\ event_type = RenderingFinished)

should_accept_event(f, event_type) ==
    \/ f.last_event_type + 1 = event_type
    \/ (f.last_event_type = Input /\ event_type = Input)
    \/ (f.last_event_type = SubmittingGPUCommands /\ event_type = RenderingFinished)

is_accepting_input(f) == f.last_event_type = Input

\* is_finished comparing against the stage before the last
is_finished_early(f) == f.last_event_type >= SubmittingGPUCommands

is_finished(f) == f.last_event_type = last

\* process_event storing the timestamp without looking at the slot
process_event_overwrite(f, event) ==
    IF should_accept_event(f, event.event_type)
    THEN [last_event_type |-> event.event_type,
          event_times |-> [f.event_times EXCEPT ![event.event_type] = event.time]]
    ELSE f

\* process_event storing the timestamp of a rejected event as well
process_event_store_rejected(f, event) ==
    [last_event_type |-> IF should_accept_event(f, event.event_type)
                         THEN event.event_type ELSE f.last_event_type,
     event_times |-> [f.event_times EXCEPT ![event.event_type] =
                          OptionOr(@, event.time)]]

\* process_event moving to the stage without storing the timestamp
process_event_no_store(f, event) ==
    IF should_accept_event(f, event.event_type)
    THEN [last_event_type |-> event.event_type, event_times |-> f.event_times]
    ELSE f

process_event(f, event) ==
    IF should_accept_event(f, event.event_type)
    THEN [last_event_type |-> event.event_type,
          event_times |-> [f.event_times EXCEPT ![event.event_type] =
                               OptionOr(@, event.time)]]
    ELSE f

\* Frame::timings: the snapshot is the slot array
timings(f) == f.event_times

\* input_to_rendered with the subtraction the wrong way round
input_to_rendered_swapped(t) ==
    IF t[Input] /= None /\ t[RenderingFinished] /= None
    THEN t[Input] - t[RenderingFinished]
    ELSE None

\* FrameTimings::input_to_rendered; None when either slot is empty
input_to_rendered(t) ==
    IF t[Input] /= None /\ t[RenderingFinished] /= None
    THEN t[RenderingFinished] - t[Input]
    ELSE None

----------------------------------------------------------------------------
(* ProcessTimingEventsSystem, lib.rs:132-182 *)

ProcessTimingEventsSystem_default == <<Frame_default>>

\* the event given only to the newest Frame that accepts it
BroadcastToNewestTaker(fs, event) ==
    LET takers == {i \in 1 .. Len(fs) :
                      should_accept_event(fs[i], event.event_type)}
    IN  [i \in 1 .. Len(fs) |->
            IF i \in takers /\ (\A j \in takers : i <= j)
            THEN process_event(fs[i], event) ELSE fs[i]]

\* for f in self.frames.iter_mut() { f.process_event(event) }
Broadcast(fs, event) == [i \in 1 .. Len(fs) |-> process_event(fs[i], event)]

\* the front check without the push
PushNever(fs) == fs

\* the push without the front check
PushAlways(fs) == <<Frame_default>> \o fs

\* if !front().unwrap().is_accepting_input() { push_front(default) }
PushIfClosed(fs) ==
    IF ~is_accepting_input(Head(fs)) THEN <<Frame_default>> \o fs ELSE fs

\* the pop that also drops the oldest Frame when the window holds over three
PopFinishedOrCrowded(fs, pending) ==
    IF fs /= <<>> /\ (is_finished(fs[Len(fs)]) \/ Len(fs) > 3)
    THEN [frames |-> SubSeq(fs, 1, Len(fs) - 1),
          pending |-> Append(pending, timings(fs[Len(fs)])),
          panicked |-> FALSE]
    ELSE [frames |-> fs, pending |-> pending, panicked |-> FALSE]

\* the pop without the loop: at most one finished Frame leaves
PopFinishedOnce(fs, pending) ==
    IF fs /= <<>> /\ is_finished(fs[Len(fs)])
    THEN [frames |-> SubSeq(fs, 1, Len(fs) - 1),
          pending |-> Append(pending, timings(fs[Len(fs)])),
          panicked |-> FALSE]
    ELSE [frames |-> fs, pending |-> pending, panicked |-> FALSE]

\* while let Some(f) = back() { if finished { pop_back; push } else break }
RECURSIVE PopFinished(_, _)
PopFinished(fs, pending) ==
    IF fs /= <<>> /\ is_finished(fs[Len(fs)])
    THEN PopFinished(SubSeq(fs, 1, Len(fs) - 1),
                     Append(pending, timings(fs[Len(fs)])))
    ELSE [frames |-> fs, pending |-> pending, panicked |-> FALSE]

\* the body of the for loop for one event
ApplyEvent(fs, pending, event) ==
    IF fs = <<>>
    THEN [frames |-> fs, pending |-> pending, panicked |-> TRUE]
    ELSE PopFinished(PushIfClosed(Broadcast(fs, event)), pending)

\* the loop leaving after its first event: the rest of the queue is lost
DrainFirst(fs, pending, events) ==
    IF events = <<>>
    THEN [frames |-> fs, pending |-> pending, panicked |-> FALSE]
    ELSE ApplyEvent(fs, pending, Head(events))

\* for event in timings.try_iter() { ... }
RECURSIVE DrainEvents(_, _, _)
DrainEvents(fs, pending, events) ==
    IF events = <<>>
    THEN [frames |-> fs, pending |-> pending, panicked |-> FALSE]
    ELSE LET one == ApplyEvent(fs, pending, Head(events))
         IN  IF one.panicked THEN one
             ELSE DrainEvents(one.frames, one.pending, Tail(events))

\* the drain as section 4.4 of the specification has it, steps 1 and 2: each
\* event is broadcast and the front checked, and nothing is popped
RECURSIVE SpecifiedApply(_, _)
SpecifiedApply(fs, events) ==
    IF events = <<>> THEN fs
    ELSE SpecifiedApply(PushIfClosed(Broadcast(fs, Head(events))), Tail(events))

\* step 3: only after the whole batch are the finished Frames taken off the back
SpecifiedDrain(fs, events) == PopFinished(SpecifiedApply(fs, events), <<>>)

\* the history without eviction
EvictNever(s) == s

\* while samples.len() + 1 >= MAX_SAMPLES { samples.pop_front() }
RECURSIVE EvictFront(_)
EvictFront(s) ==
    IF Len(s) + 1 >= MAX_SAMPLES THEN EvictFront(Tail(s)) ELSE s

\* the history making room once for a whole batch of samples
PushSamplesEvictOnce(s, pending) ==
    IF pending = <<>> THEN s ELSE EvictFront(s) \o pending

\* for sample in pending_samples { evict; samples.push_back(sample) }
RECURSIVE PushSamples(_, _)
PushSamples(s, pending) ==
    IF pending = <<>> THEN s
    ELSE PushSamples(Append(EvictFront(s), Head(pending)), Tail(pending))

----------------------------------------------------------------------------
(* Operations *)

Min(a, b) == IF a <= b THEN a ELSE b

\* set_enabled(enabled)
set_enabled(enabled) ==
    /\ ENABLED_FLAG' = enabled
    /\ UNCHANGED <<thin, chan, frames, samples, now, panicked>>

\* time passes: a later Instant::now() returns a later value
Elapse ==
    /\ now' = now + 1
    /\ UNCHANGED <<ENABLED_FLAG, thin, chan, frames, samples, panicked>>

\* send queueing the event whether or not a Receiver is left
SendAlways(e) == chan' = Append(chan, e)

\* send putting the event at the head of the queue
SendFirst(e) == chan' = IF receiver THEN <<e>> \o chan ELSE chan

\* sender.send(event).ok() on the unbounded channel: with no Receiver left
\* send returns Err, which ok() discards
Send(e) == chan' = IF receiver THEN Append(chan, e) ELSE chan

\* report_event sending without reading the flag
Reporter_report_event_always(event_type, time) ==
    /\ Send(TimingEvent(event_type, time))
    /\ UNCHANGED <<ENABLED_FLAG, thin, frames, samples, now, panicked>>

\* Reporter::report_event(event) where event.into() has the given type and time
Reporter_report_event(event_type, time) ==
    /\ IF ENABLED_FLAG
       THEN Send(TimingEvent(event_type, time))
       ELSE chan' = chan
    /\ UNCHANGED <<ENABLED_FLAG, thin, frames, samples, now, panicked>>

\* Reporter::reporter()
Reporter_reporter ==
    /\ thin' = IF ENABLED_FLAG THEN "Enabled" ELSE "Disabled"
    /\ UNCHANGED <<ENABLED_FLAG, chan, frames, samples, now, panicked>>

\* the thin handle reading the flag at each call, as the Reporter does
ThinReporter_report_event_by_flag(event_type, time) ==
    /\ thin /= "None"
    /\ IF ENABLED_FLAG
       THEN Send(TimingEvent(event_type, time))
       ELSE chan' = chan
    /\ UNCHANGED <<ENABLED_FLAG, thin, frames, samples, now, panicked>>

\* ThinReporter::report_event(event) on the handle last obtained
ThinReporter_report_event(event_type, time) ==
    /\ thin /= "None"
    /\ IF thin = "Enabled"
       THEN Send(TimingEvent(event_type, time))
       ELSE chan' = chan
    /\ UNCHANGED <<ENABLED_FLAG, thin, frames, samples, now, panicked>>

\* the last clone of the Reporter is dropped, and the Receiver with it; thin
\* handles hold clones of the Sender only and live on
DropReporter ==
    /\ receiver
    /\ receiver' = FALSE
    /\ UNCHANGED <<ENABLED_FLAG, thin, chan, frames, samples, now, panicked>>

\* SystemWrapper::run up to the call of the wrapped system: r is obtained
\* and on_started reported through it
WrapStart ==
    /\ wrap_pc = "idle"
    /\ r' = IF ENABLED_FLAG THEN "Enabled" ELSE "Disabled"
    /\ IF r' = "Enabled"
       THEN Send(TimingEvent(on_started, now))
       ELSE chan' = chan
    /\ wrap_pc' = "running"
    /\ UNCHANGED <<ENABLED_FLAG, thin, frames, samples, now, panicked>>

\* on_finished reported by reading the flag again instead of through r
WrapFinish_by_flag ==
    /\ wrap_pc = "running"
    /\ IF ENABLED_FLAG
       THEN Send(TimingEvent(on_finished, now))
       ELSE chan' = chan
    /\ r' = "None"
    /\ wrap_pc' = "idle"
    /\ UNCHANGED <<ENABLED_FLAG, thin, frames, samples, now, panicked>>

\* SystemWrapper::run once the wrapped system has returned: on_finished is
\* reported through r, and r goes out of scope
WrapFinish ==
    /\ wrap_pc = "running"
    /\ IF r = "Enabled"
       THEN Send(TimingEvent(on_finished, now))
       ELSE chan' = chan
    /\ r' = "None"
    /\ wrap_pc' = "idle"
    /\ UNCHANGED <<ENABLED_FLAG, thin, frames, samples, now, panicked>>

\* what run() computes from the window and the queued events
RunResult == DrainEvents(frames, <<>>, chan)

\* run() without the test of the world's context
run_any_context(ctx) ==
    /\ ~panicked
    /\ chan' = <<>>
    /\ frames' = RunResult.frames
    /\ panicked' = RunResult.panicked
    /\ samples' = IF RunResult.panicked THEN samples
                  ELSE PushSamples(samples, RunResult.pending)
    /\ UNCHANGED <<ENABLED_FLAG, thin, now>>

\* ProcessTimingEventsSystem::run(world, _) in a world of context ctx
run(ctx) ==
    /\ ~panicked
    /\ IF ctx /= "App"
       THEN UNCHANGED <<chan, frames, samples, panicked>>
       ELSE /\ chan' = <<>>
            /\ frames' = RunResult.frames
            /\ panicked' = RunResult.panicked
            /\ samples' = IF RunResult.panicked THEN samples
                          ELSE PushSamples(samples, RunResult.pending)
    /\ UNCHANGED <<ENABLED_FLAG, thin, now>>

\* run() step by step, for the sends that come while it drains:
\* the context test and let mut pending_samples = Vec::new()
TickStart(ctx) ==
    /\ ~panicked
    /\ pc = "idle"
    /\ IF ctx /= "App"
       THEN UNCHANGED <<pc, pending_samples>>
       ELSE pc' = "draining" /\ pending_samples' = <<>>
    /\ UNCHANGED <<ENABLED_FLAG, thin, chan, frames, samples, now, panicked>>

\* try_iter() yields the oldest queued event and the loop body applies it
TickRecv ==
    /\ ~panicked
    /\ pc = "draining"
    /\ chan /= <<>>
    /\ LET one == ApplyEvent(frames, pending_samples, Head(chan))
       IN  /\ frames' = one.frames
           /\ pending_samples' = one.pending
           /\ panicked' = one.panicked
    /\ chan' = Tail(chan)
    /\ UNCHANGED <<ENABLED_FLAG, thin, samples, now, pc>>

\* try_iter() finds the channel empty: the samples are pushed and run() returns
TickEnd ==
    /\ ~panicked
    /\ pc = "draining"
    /\ chan = <<>>
    /\ samples' = PushSamples(samples, pending_samples)
    /\ pending_samples' = <<>>
    /\ pc' = "idle"
    /\ UNCHANGED <<ENABLED_FLAG, thin, chan, frames, now, panicked>>

\* Frame::process_event on the Frame that stands alone
FrameProcessEvent(event_type, time) ==
    /\ given' = TimingEvent(event_type, time)
    /\ frame' = process_event(frame, given')
    /\ canon' = IF canon = event_type THEN canon + 1 ELSE COUNT + 1

----------------------------------------------------------------------------
(* The program: flag, reporters, channel and tick driver, any events *)

InitProgram ==
    /\ ENABLED_FLAG = FALSE
    /\ thin = "None"
    /\ chan = <<>>
    /\ frames = ProcessTimingEventsSystem_default
    /\ samples = <<>>
    /\ now = 0
    /\ panicked = FALSE
    /\ receiver = TRUE
    /\ pc = "idle"
    /\ pending_samples = <<>>
    /\ wrap_pc = "idle"
    /\ r = "None"
    /\ held = {}

InitUnit ==
    /\ frame = Frame_default
    /\ given = TimingEvent(Input, 0)
    /\ canon = 0

InitGhost ==
    /\ sent = 0
    /\ drains = 0
    /\ pushed = 0
    /\ quiet = 0
    /\ early = 0
    /\ batch = Off
    /\ op = "new"
    /\ acquired = FALSE
    /\ applied = <<>>
    /\ accepted = {}
    /\ twin = [frames |-> ProcessTimingEventsSystem_default, pending |-> <<>>]

Init ==
    /\ InitProgram
    /\ InitUnit
    /\ InitGhost
    /\ pos = <<>>
    /\ rounds = <<>>

\* an App-context run counts as a drain and its samples as pushed
Observe(ctx) ==
    /\ drains' = IF ctx = "App" THEN Min(drains + 1, DrainCap) ELSE drains
    /\ pushed' = IF ctx = "App" THEN pushed + Len(RunResult.pending) ELSE pushed

\* quiet after a report_event call, and after any other call
QuietAfterReport ==
    IF quiet /= Off /\ ~ENABLED_FLAG' THEN quiet + 1
    ELSE IF ~ENABLED_FLAG' /\ chan' = <<>> THEN 0 ELSE Off

QuietAfterOther == IF ~ENABLED_FLAG' /\ chan' = <<>> THEN 0 ELSE Off

Next ==
    \/ \E b \in BOOLEAN :
         /\ set_enabled(b)
         /\ quiet' = QuietAfterOther
         /\ UNCHANGED <<unit, source, sent, drains, pushed, early, threads, notes>>
    \/ /\ now < MaxTime
       /\ Elapse
       /\ UNCHANGED <<unit, source, ghost, threads, notes>>
    \/ \E t \in TimingEventType :
         /\ sent < MaxEvents
         /\ Len(chan) < MaxChan
         /\ Reporter_report_event(t, now)
         /\ sent' = sent + 1
         /\ quiet' = QuietAfterReport
         /\ UNCHANGED <<unit, source, drains, pushed, early, threads, notes>>
    \/ /\ Reporter_reporter
       /\ quiet' = QuietAfterOther
       /\ UNCHANGED <<unit, source, sent, drains, pushed, early, threads, notes>>
    \/ \E t \in TimingEventType :
         /\ sent < MaxEvents
         /\ Len(chan) < MaxChan
         /\ ThinReporter_report_event(t, now)
         /\ sent' = sent + 1
         /\ quiet' = QuietAfterReport
         /\ UNCHANGED <<unit, source, drains, pushed, early, threads, notes>>
    \/ \E c \in WorldContext :
         /\ run(c)
         /\ quiet' = QuietAfterOther
         /\ UNCHANGED <<unit, source, sent, drains, pushed, early, threads, notes>>

Spec == Init /\ [][Next]_vars

----------------------------------------------------------------------------
(* One Frame given any events *)

\* any stage, at a time no earlier than the event before
NextFrame ==
    \E t \in TimingEventType, time \in given.time .. FrameMaxTime :
        /\ FrameProcessEvent(t, time)
        /\ accepted' = IF should_accept_event(frame, t)
                       THEN accepted \cup {t} ELSE accepted
        /\ UNCHANGED <<prog, source, ghost, threads,
                       batch, op, acquired, applied,
                       twin>>

SpecFrame == Init /\ [][NextFrame]_vars

----------------------------------------------------------------------------
(* The window given any events, telemetry enabled *)

\* the program once set_enabled(true) has been called
InitEnabled ==
    /\ ENABLED_FLAG = TRUE
    /\ thin = "None"
    /\ chan = <<>>
    /\ frames = ProcessTimingEventsSystem_default
    /\ samples = <<>>
    /\ now = 0
    /\ panicked = FALSE
    /\ receiver = TRUE
    /\ pc = "idle"
    /\ pending_samples = <<>>
    /\ wrap_pc = "idle"
    /\ r = "None"
    /\ held = {}

InitWindow ==
    /\ InitEnabled
    /\ InitUnit
    /\ InitGhost
    /\ pos = <<>>
    /\ rounds = <<>>

NextWindow ==
    \/ \E t \in TimingEventType :
         /\ sent < WindowEvents
         /\ Len(chan) < WindowChan
         /\ Reporter_report_event(t, now)
         /\ sent' = sent + 1
         /\ UNCHANGED <<unit, source, drains, pushed, quiet, early, threads, notes>>
    \/ \E c \in WorldContext :
         run(c) /\ UNCHANGED <<unit, source, ghost, threads, notes>>

SpecWindow == InitWindow /\ [][NextWindow]_vars

----------------------------------------------------------------------------
(* Source frames: each slot reports its frames' stages in canonical order *)

\* the number of the frame a slot is reporting: slots take turns
FrameNo(k) == k + Len(pos) * rounds[k]

\* the timestamp of stage s of frame n: a value no other event carries
Tag(n, s) == COUNT * (n - 1) + s

\* the sample a frame leaves when every one of its events fills its slot
SampleOf(n) == [s \in TimingEventType |-> Tag(n, s)]

\* slot k reports the next stage of its frame through the Reporter
SourceReport(k) ==
    /\ Reporter_report_event(pos[k], Tag(FrameNo(k), pos[k]))
    /\ IF pos[k] = last
       THEN /\ pos' = [pos EXCEPT ![k] = Input]
            /\ rounds' = [rounds EXCEPT ![k] = @ + 1]
       ELSE /\ pos' = [pos EXCEPT ![k] = @ + 1]
            /\ rounds' = rounds

\* slot k reports the next stage of its frame at the time the clock shows
ClockReport(k) ==
    /\ Reporter_report_event(pos[k], now)
    /\ IF pos[k] = last
       THEN /\ pos' = [pos EXCEPT ![k] = Input]
            /\ rounds' = [rounds EXCEPT ![k] = @ + 1]
       ELSE /\ pos' = [pos EXCEPT ![k] = @ + 1]
            /\ rounds' = rounds

\* the events the frame of slot k has reported
Progress(k) == IF rounds[k] >= 1 THEN COUNT ELSE pos[k]

\* slot k's next event comes after the frame before it has moved on: its Input
\* after that frame's ScriptingStarted, its stage s >= 1 after that frame's
\* stage min(s + 1, last)
KeepsDistance(k) ==
    IF k = 1 THEN TRUE
    ELSE IF pos[k] = Input THEN Progress(k - 1) >= ScriptingStarted + 1
    ELSE Progress(k - 1) >= Min(pos[k] + 1, last) + 1

InitInterleave ==
    /\ InitEnabled
    /\ InitUnit
    /\ InitGhost
    /\ pos = [k \in 1 .. InterleaveFrames |-> Input]
    /\ rounds = [k \in 1 .. InterleaveFrames |-> 0]

NextInterleave ==
    \/ \E k \in DOMAIN pos :
         /\ rounds[k] < 1
         /\ Len(chan) < InterleaveChan
         /\ early + (IF KeepsDistance(k) THEN 0 ELSE 1) <= MaxEarly
         /\ SourceReport(k)
         /\ early' = early + (IF KeepsDistance(k) THEN 0 ELSE 1)
         /\ UNCHANGED <<unit, sent, drains, pushed, quiet, threads, notes>>
    \/ \E c \in WorldContext :
         run(c) /\ UNCHANGED <<unit, source, ghost, threads, notes>>

SpecInterleave == InitInterleave /\ [][NextInterleave]_vars

----------------------------------------------------------------------------
(* One source: frame after frame, filling the history *)

InitHistory ==
    /\ InitEnabled
    /\ InitUnit
    /\ InitGhost
    /\ pos = <<Input>>
    /\ rounds = <<0>>

NextHistory ==
    \/ \E k \in DOMAIN pos :
         /\ rounds[k] < HistoryFrames
         /\ Len(chan) < HistoryChan
         /\ SourceReport(k)
         /\ UNCHANGED <<unit, ghost, threads, notes>>
    \/ \E c \in WorldContext :
         /\ run(c)
         /\ Observe(c)
         /\ UNCHANGED <<unit, source, sent, quiet, early, threads, notes>>

SpecHistory == InitHistory /\ [][NextHistory]_vars

----------------------------------------------------------------------------
(* Two sources taking turns: the events of consecutive frames alternate *)

\* the frame before the one slot k is reporting has begun: frames begin in order
InTurn(k) ==
    IF k > 1
    THEN rounds[k - 1] > rounds[k] \/ pos[k - 1] > Input
    ELSE IF rounds[k] = 0 THEN TRUE
    ELSE rounds[Len(pos)] >= rounds[k] \/ pos[Len(pos)] > Input

InitAlternate ==
    /\ InitEnabled
    /\ InitUnit
    /\ InitGhost
    /\ pos = <<Input, Input>>
    /\ rounds = <<0, 0>>

NextAlternate ==
    \/ \E k \in DOMAIN pos :
         /\ rounds[k] < AlternateRounds
         /\ Len(chan) < AlternateChan
         /\ InTurn(k)
         /\ ClockReport(k)
         /\ UNCHANGED <<unit, ghost, threads, notes>>
    \/ \E c \in WorldContext :
         run(c) /\ UNCHANGED <<unit, source, ghost, threads, notes>>

SpecAlternate == InitAlternate /\ [][NextAlternate]_vars

----------------------------------------------------------------------------
(* The window given any events, and then one batch in canonical order *)

\* the stage the batch reports next
BatchStage == IF batch = Off THEN Input ELSE batch

NextShrink ==
    \/ \E t \in TimingEventType :
         /\ batch = Off
         /\ sent < ShrinkEvents
         /\ Len(chan) < ShrinkChan
         /\ Reporter_report_event(t, now)
         /\ sent' = sent + 1
         /\ UNCHANGED <<unit, source, drains, pushed, quiet, early,
                        threads, notes>>
    \/ /\ BatchStage < COUNT
       /\ Len(chan) < ShrinkChan
       /\ Reporter_report_event(BatchStage, now)
       /\ batch' = BatchStage + 1
       /\ UNCHANGED <<unit, source, ghost, threads,
                      op, acquired, applied, accepted,
                       twin>>
    \/ \E c \in WorldContext :
         run(c) /\ UNCHANGED <<unit, source, ghost, threads, notes>>

SpecShrink == InitWindow /\ [][NextShrink]_vars

----------------------------------------------------------------------------
(* One source and the tick driver in worlds of either context *)

NextTick ==
    \/ \E k \in DOMAIN pos :
         /\ rounds[k] < TickFrames
         /\ Len(chan) < TickChan
         /\ SourceReport(k)
         /\ op' = "report"
         /\ UNCHANGED <<unit, ghost, threads,
                        batch, acquired, applied, accepted,
                       twin>>
    \/ \E c \in WorldContext :
         /\ run(c)
         /\ Observe(c)
         /\ op' = IF c = "App" THEN "run_app" ELSE "run_other"
         /\ UNCHANGED <<unit, source, sent, quiet, early, threads,
                        batch, acquired, applied, accepted,
                       twin>>

SpecTick == InitHistory /\ [][NextTick]_vars

----------------------------------------------------------------------------
(* Producers on threads of their own, sending while the tick driver drains *)

\* the flag stays true, so the load and the send of report_event are one step
InitProducers ==
    /\ InitEnabled
    /\ InitUnit
    /\ InitGhost
    /\ pos = [k \in 1 .. Producers |-> Input]
    /\ rounds = [k \in 1 .. Producers |-> 0]

ProducerStep ==
    \E k \in DOMAIN pos :
        /\ pos[k] < ProducerEvents
        /\ SourceReport(k)
        /\ UNCHANGED <<unit, ghost, threads, notes>>

TickStartStep ==
    \E c \in WorldContext :
        /\ TickStart(c)
        /\ UNCHANGED <<unit, source, ghost, receiver, wrap_pc, r, notes,
                       held>>

\* the event handed to the loop body goes on record
TickRecvStep ==
    /\ TickRecv
    /\ applied' = Append(applied, Head(chan))
    /\ UNCHANGED <<unit, source, ghost, receiver, wrap_pc, r,
                   batch, op, acquired, accepted,
                       held, twin>>

TickEndStep ==
    /\ TickEnd
    /\ UNCHANGED <<unit, source, ghost, receiver, wrap_pc, r, notes,
                       held>>

NextProducers ==
    \/ ProducerStep
    \/ TickStartStep
    \/ TickRecvStep
    \/ TickEndStep

\* ticks keep occurring, and a run under way goes on to its end
SpecProducers ==
    /\ InitProducers
    /\ [][NextProducers]_vars
    /\ WF_vars(TickStartStep)
    /\ WF_vars(TickRecvStep)
    /\ WF_vars(TickEndStep)

----------------------------------------------------------------------------
(* The Reporter, thin handles that may outlive it, and the flag *)

\* the Reporter's methods and run() need the Reporter; a thin handle does not
NextHandle ==
    \/ \E b \in BOOLEAN :
         /\ set_enabled(b)
         /\ op' = "set_enabled"
         /\ UNCHANGED <<unit, source, ghost, threads,
                        batch, acquired, applied, accepted,
                       twin>>
    \/ \E t \in TimingEventType :
         /\ receiver
         /\ sent < HandleEvents
         /\ Reporter_report_event(t, now)
         /\ sent' = sent + 1
         /\ op' = "report"
         /\ UNCHANGED <<unit, source, drains, pushed, quiet, early, threads,
                        batch, acquired, applied, accepted,
                       twin>>
    \/ /\ receiver
       /\ Reporter_reporter
       /\ acquired' = ENABLED_FLAG
       /\ op' = "reporter"
       /\ UNCHANGED <<unit, source, ghost, threads, batch, applied, accepted,
                       twin>>
    \/ \E t \in TimingEventType :
         /\ sent < HandleEvents
         /\ ThinReporter_report_event(t, now)
         /\ sent' = sent + 1
         /\ op' = "thin_report"
         /\ UNCHANGED <<unit, source, drains, pushed, quiet, early, threads,
                        batch, acquired, applied, accepted,
                       twin>>
    \/ \E c \in WorldContext :
         /\ receiver
         /\ run(c)
         /\ op' = IF c = "App" THEN "run_app" ELSE "run_other"
         /\ UNCHANGED <<unit, source, ghost, threads,
                        batch, acquired, applied, accepted,
                       twin>>
    \/ /\ DropReporter
       /\ op' = "drop"
       /\ UNCHANGED <<unit, source, ghost, pc, pending_samples, wrap_pc, r,
                      batch, acquired, applied, accepted,
                       held, twin>>

SpecHandle == Init /\ [][NextHandle]_vars

----------------------------------------------------------------------------
(* A wrapped system, with the flag set and Input reported while it runs *)

NextWrapper ==
    \/ /\ sent < WrapRuns
       /\ WrapStart
       /\ sent' = sent + 1
       /\ op' = "wrap_start"
       /\ UNCHANGED <<unit, source, drains, pushed, quiet, early,
                      receiver, pc, pending_samples,
                      batch, acquired, applied, accepted,
                       held, twin>>
    \/ /\ WrapFinish
       /\ op' = "wrap_finish"
       /\ UNCHANGED <<unit, source, ghost, receiver, pc, pending_samples,
                      batch, acquired, applied, accepted,
                       held, twin>>
    \/ \E b \in BOOLEAN :
         /\ set_enabled(b)
         /\ op' = "set_enabled"
         /\ UNCHANGED <<unit, source, ghost, threads,
                        batch, acquired, applied, accepted,
                       twin>>
    \/ /\ now < WrapTime
       /\ Elapse
       /\ op' = "elapse"
       /\ UNCHANGED <<unit, source, ghost, threads,
                      batch, acquired, applied, accepted,
                       twin>>
    \/ /\ Len(chan) < WrapChan
       /\ Reporter_report_event(Input, now)
       /\ op' = "report"
       /\ UNCHANGED <<unit, source, ghost, threads,
                      batch, acquired, applied, accepted,
                       twin>>

SpecWrapper == Init /\ [][NextWrapper]_vars

----------------------------------------------------------------------------
(* One event sequence drained over any ticks, beside one run() given it whole *)

\* the twin run() meets event e
TwinGiven(e) ==
    LET one == ApplyEvent(twin.frames, twin.pending, e)
    IN  twin' = [frames |-> one.frames, pending |-> one.pending]

NextPartition ==
    \/ \E t \in TimingEventType :
         /\ rounds[1] = 0 /\ pos[1] = Input
         /\ sent < PartStray
         /\ Len(chan) < PartChan
         /\ Reporter_report_event(t, now)
         /\ TwinGiven(TimingEvent(t, now))
         /\ sent' = sent + 1
         /\ UNCHANGED <<unit, source, drains, pushed, quiet, early, threads,
                        batch, op, acquired, applied, accepted>>
    \/ \E k \in DOMAIN pos :
         /\ rounds[k] < PartFrames
         /\ Len(chan) < PartChan
         /\ SourceReport(k)
         /\ TwinGiven(TimingEvent(pos[k], Tag(FrameNo(k), pos[k])))
         /\ UNCHANGED <<unit, ghost, threads,
                        batch, op, acquired, applied, accepted>>
    \/ \E c \in WorldContext :
         run(c) /\ UNCHANGED <<unit, source, ghost, threads, notes>>

SpecPartition == InitHistory /\ [][NextPartition]_vars

----------------------------------------------------------------------------
(* Two reporting threads: an event's time is taken, and then it is sent *)

\* thread k builds its event: TimingEvent::from, or let time = Instant::now()
\* in ClientWorldTimingSystem::run, reads the clock
TakeTime(k) ==
    /\ \A h \in held : h.by /= k
    /\ held' = held \cup {[by |-> k, event |-> TimingEvent(pos[k], now)]}
    /\ UNCHANGED <<ENABLED_FLAG, thin, chan, frames, samples, now, panicked>>

\* thread k sends the event it has built: sender.send(event) in report_event
SendHeld(k) ==
    \E h \in held :
        /\ h.by = k
        /\ Reporter_report_event(h.event.event_type, h.event.time)
        /\ held' = held \ {h}

\* thread 1 reports user input, thread 2 the stages of one frame in order
InitClock ==
    /\ InitEnabled
    /\ InitUnit
    /\ InitGhost
    /\ pos = <<Input, ScriptingStarted>>
    /\ rounds = <<0, 0>>

NextClock ==
    \/ \E k \in DOMAIN pos :
         /\ rounds[k] < (IF k = 1 THEN ClockInputs ELSE 1)
         /\ TakeTime(k)
         /\ UNCHANGED <<unit, source, ghost, receiver, pc, pending_samples,
                        wrap_pc, r, notes>>
    \/ \E k \in DOMAIN pos :
         /\ Len(chan) < ClockChan
         /\ SendHeld(k)
         /\ IF k = 1 \/ pos[k] = last
            THEN /\ rounds' = [rounds EXCEPT ![k] = @ + 1]
                 /\ pos' = pos
            ELSE /\ pos' = [pos EXCEPT ![k] = @ + 1]
                 /\ rounds' = rounds
         /\ UNCHANGED <<unit, ghost, receiver, pc, pending_samples,
                        wrap_pc, r, notes>>
    \/ /\ now < ClockTime
       /\ Elapse
       /\ UNCHANGED <<unit, source, ghost, threads, notes>>
    \/ \E c \in WorldContext :
         run(c) /\ UNCHANGED <<unit, source, ghost, threads, notes>>

SpecClock == InitClock /\ [][NextClock]_vars

----------------------------------------------------------------------------
(* The window event by event: any events, then a batch in canonical order *)

NextSteps ==
    \/ \E t \in TimingEventType :
         /\ batch = Off
         /\ sent < StepEvents
         /\ Len(chan) < StepChan
         /\ Reporter_report_event(t, now)
         /\ sent' = sent + 1
         /\ UNCHANGED <<unit, source, drains, pushed, quiet, early,
                        threads, notes>>
    \/ /\ BatchStage < COUNT
       /\ Len(chan) < StepChan
       /\ Reporter_report_event(BatchStage, now)
       /\ batch' = BatchStage + 1
       /\ UNCHANGED <<unit, source, ghost, threads,
                      op, acquired, applied, accepted, twin>>
    \/ \E c \in WorldContext :
         /\ TickStart(c)
         /\ UNCHANGED <<unit, source, ghost, receiver, wrap_pc, r, held, notes>>
    \/ /\ TickRecv
       /\ UNCHANGED <<unit, source, ghost, receiver, wrap_pc, r, held, notes>>
    \/ /\ TickEnd
       /\ UNCHANGED <<unit, source, ghost, receiver, wrap_pc, r, held, notes>>

SpecSteps == InitWindow /\ [][NextSteps]_vars

----------------------------------------------------------------------------
(* Properties of one Frame, under SpecFrame *)

\* C1: whatever the Frame's last accepted stage and the incoming stage, the
\* Frame accepts the event exactly when the stage is the next one, or both
\* are Input, or the Frame is at SubmittingGPUCommands and the event is
\* RenderingFinished; an accepted event's stage becomes the last accepted
\* stage, and any other event leaves the whole Frame as it was.
C1_AcceptanceRule ==
    [][LET l == frame.last_event_type
           t == given'.event_type
           rule == \/ t = l + 1
                   \/ (l = Input /\ t = Input)
                   \/ (l = SubmittingGPUCommands /\ t = RenderingFinished)
       IN  /\ should_accept_event(frame, t) <=> rule
           /\ IF rule THEN frame'.last_event_type = t ELSE frame' = frame]_vars

\* a Frame at ClientSystemsStarted was given SubmittingGPUCommands and dropped it
C1_Witness ==
    /\ frame.last_event_type = ClientSystemsStarted
    /\ given.event_type = SubmittingGPUCommands
    /\ frame.event_times[SubmittingGPUCommands] = None
    /\ frame.event_times[ClientSystemsStarted] /= None

\* C8: a timestamp slot that holds a value keeps that value in every later
\* step, whatever event the Frame is given, repeated Input events included.
C8_FirstWriteWins ==
    [][\A s \in TimingEventType :
          frame.event_times[s] /= None =>
              frame'.event_times[s] = frame.event_times[s]]_vars

\* a Frame still at Input accepted a second Input with another timestamp
C8_Witness ==
    /\ frame.last_event_type = Input
    /\ frame.event_times[Input] = 0
    /\ given = TimingEvent(Input, 1)

\* C9: while a fresh Frame has been given the stages in canonical order, it
\* is finished exactly when all COUNT of them have been given.
C9_InOrderCompletion ==
    canon <= COUNT => (is_finished(frame) <=> canon = COUNT)

\* the canonical sequence was given in full
C9_Witness == canon = COUNT /\ is_finished(frame)

\* C10: a Frame at SubmittingGPUCommands accepts RenderingFinished and is
\* then finished; a Frame at any other stage is left unchanged by an event
\* two or more stages ahead of its last accepted stage.
C10_SkipException ==
    [][LET l == frame.last_event_type
           t == given'.event_type
       IN  /\ (l = SubmittingGPUCommands /\ t = RenderingFinished) =>
                 (should_accept_event(frame, t) /\ is_finished(frame'))
           /\ (l /= SubmittingGPUCommands /\ t >= l + 2) =>
                 (~should_accept_event(frame, t) /\ frame' = frame)]_vars

\* a Frame went from SubmittingGPUCommands to finished on RenderingFinished
C10_Witness ==
    /\ is_finished(frame)
    /\ given.event_type = RenderingFinished
    /\ frame.event_times[RenderingFinished] = given.time
    /\ frame.event_times[SubmittingGPUCommands] /= None

\* C18: a timestamp slot of a Frame is set if and only if the Frame has
\* accepted an event of that stage at least once.
C18_SlotIffAccepted ==
    \A s \in TimingEventType : frame.event_times[s] /= None <=> s \in accepted

\* a Frame that never got Input has accepted two stages and dropped a third
C18_Witness ==
    /\ accepted = {ScriptingStarted, ScriptingFinished}
    /\ given.event_type = DrawingUI
    /\ frame.event_times[Input] = None
    /\ frame.event_times[DrawingUI] = None
    /\ frame.event_times[ScriptingFinished] /= None

\* C25: should_accept_event is 'the next stage index, or Input on Input':
\* the rule for RenderingFinished after SubmittingGPUCommands adds nothing.
\* So no event lowers a Frame's stage or raises it by more than one, and a
\* finished Frame, whose slots are its sample, has a timestamp for every
\* stage from ScriptingStarted through RenderingFinished.
C25_NoSlotSkipped ==
    /\ [](is_finished(frame) =>
             \A s \in ScriptingStarted .. RenderingFinished :
                 timings(frame)[s] /= None)
    /\ [][LET l == frame.last_event_type
              t == given'.event_type
          IN  /\ should_accept_event(frame, t) <=>
                     (t = l + 1 \/ (l = Input /\ t = Input))
              /\ frame'.last_event_type \in {l, l + 1}]_vars

\* a Frame that never got Input has finished, the last event coming after a
\* SubmittingGPUCommands it had accepted
C25_Witness ==
    /\ is_finished(frame)
    /\ accepted = ScriptingStarted .. RenderingFinished
    /\ frame.event_times[Input] = None
    /\ given.event_type = RenderingFinished

----------------------------------------------------------------------------
(* Properties of the window, under SpecWindow *)

\* C7: whatever stage events are reported, in any order, with any
\* repetitions and split into ticks in any way, run() never unwraps None and
\* the window always holds at least one Frame.
C7_Totality == ~panicked /\ Len(frames) >= 1

\* a Frame has finished and left the window, which goes on tracking frames
C7_Witness ==
    /\ samples /= <<>>
    /\ Len(frames) >= 1
    /\ is_accepting_input(Head(frames))
    /\ ~panicked

----------------------------------------------------------------------------
(* Properties of the history, under SpecHistory *)

\* C3: on a fresh pipeline with telemetry enabled, once one event per stage
\* has been reported in canonical order and a single run has drained them,
\* the history holds exactly one sample, its timestamps are the reported
\* ones, its first-to-last duration is t(RenderingFinished) - t(Input), and
\* the window holds exactly one Frame, open and with all slots empty.
C3_SingleFrame ==
    (rounds[1] = 1 /\ pos[1] = Input /\ chan = <<>> /\ drains = 1) =>
        /\ samples = <<SampleOf(1)>>
        /\ input_to_rendered(samples[1]) = Tag(1, RenderingFinished) - Tag(1, Input)
        /\ frames = <<Frame_default>>

\* the nine events were drained by the one run there has been
C3_Witness ==
    /\ rounds[1] = 1 /\ pos[1] = Input /\ chan = <<>> /\ drains = 1
    /\ Len(samples) = 1
    /\ ENABLED_FLAG

\* C4: after n samples have been pushed the history holds the most recent
\* min(n, MAX_SAMPLES) of them in arrival order, so the first sample is gone
\* only after MAX_SAMPLES + 1 pushes.
C4_FifoEviction ==
    LET n == Min(pushed, MAX_SAMPLES)
    IN  samples = [i \in 1 .. n |-> SampleOf(pushed - n + i)]

\* C5: the history never holds more than MAX_SAMPLES samples.
C5_HistoryBound == Len(samples) <= MAX_SAMPLES

\* more samples than the history holds have been pushed and the oldest evicted
C5_Witness ==
    /\ pushed > MAX_SAMPLES
    /\ Len(samples) = MAX_SAMPLES - 1
    /\ samples[Len(samples)] = SampleOf(pushed)

----------------------------------------------------------------------------
(* Properties of the reporters, under Spec *)

\* a run in App context now would leave the window and the history as they are
DrainChangesNothing == RunResult.frames = frames /\ RunResult.pending = <<>>

\* C6 as claimed: when the flag has been false since the channel was empty
\* and only report_event calls were made since, on the Reporter or on the
\* thin handle, a drain leaves the window and the history unchanged.
C6_DisabledNoOp == quiet /= Off => DrainChangesNothing

\* C6: the same for calls on the Reporter and on a thin handle that was
\* obtained while the flag was false: nothing is queued and a drain leaves
\* the window and the history unchanged.
C6_DisabledNoOpThinDisabled ==
    (quiet /= Off /\ thin /= "Enabled") => (chan = <<>> /\ DrainChangesNothing)

\* two or more calls were made while disabled, a disabled thin handle at hand
C6_Witness ==
    /\ quiet >= 2
    /\ thin = "Disabled"
    /\ ~ENABLED_FLAG
    /\ frames = ProcessTimingEventsSystem_default

----------------------------------------------------------------------------
(* Properties of the routing, under SpecInterleave *)

\* the window as it is when the i-th queued event gets its turn
WindowBefore(i) == DrainEvents(frames, <<>>, SubSeq(chan, 1, i - 1)).frames

\* every queued event is accepted by at most one Frame of the window
AcceptedByAtMostOne ==
    \A i \in 1 .. Len(chan) :
        LET w == WindowBefore(i)
        IN  Cardinality({j \in 1 .. Len(w) :
                should_accept_event(w[j], chan[i].event_type)}) <= 1

\* the source frame whose event carries timestamp t
SourceOf(t) == (t \div COUNT) + 1

\* the filled slots of a sample all come from one source frame
SingleSource(t) ==
    \A a, b \in TimingEventType :
        (t[a] /= None /\ t[b] /= None) => SourceOf(t[a]) = SourceOf(t[b])

\* C2 as claimed: for any interleaving of the frames' in-order sequences,
\* every event is accepted by at most one Frame of the window and every
\* sample holds timestamps of one source frame only.
C2_Routing ==
    /\ AcceptedByAtMostOne
    /\ \A i \in 1 .. Len(samples) : SingleSource(samples[i])

\* C2: the same for the interleavings in which every frame keeps its
\* distance from the frame before it: its Input comes after that frame's
\* ScriptingStarted and its stage s >= 1 after that frame's stage
\* min(s + 1, last).
C2_RoutingOrderly == early = 0 => C2_Routing

\* the first frame has left its sample while the second and the third, each
\* keeping its distance, are both in the window behind the open Frame
C2_Witness ==
    /\ early = 0
    /\ samples = <<SampleOf(1)>>
    /\ Len(frames) = 3
    /\ \A i \in 2 .. 3 : ~is_accepting_input(frames[i])

\* every queued event is accepted by one Frame of the window and no other
AcceptedByExactlyOne ==
    \A i \in 1 .. Len(chan) :
        LET w == WindowBefore(i)
        IN  Cardinality({j \in 1 .. Len(w) :
                should_accept_event(w[j], chan[i].event_type)}) = 1

\* C26: while every frame keeps its distance from the frame before it (its
\* Input after that frame's ScriptingStarted, its stage s >= 1 after that
\* frame's stage min(s + 1, last)), every event is accepted by exactly one
\* Frame, and the k-th sample of the history holds exactly the timestamps of
\* the k-th frame's events.
C26_StaggeredRouting ==
    early = 0 =>
        /\ AcceptedByExactlyOne
        /\ \A k \in 1 .. Len(samples) : samples[k] = SampleOf(k)

\* all the frames, each having kept its distance, have left their samples
C26_Witness ==
    /\ early = 0
    /\ Len(samples) = InterleaveFrames
    /\ samples[InterleaveFrames] = SampleOf(InterleaveFrames)

----------------------------------------------------------------------------
(* Properties of the window's size, under SpecAlternate *)

\* the window after each of the events processed so far and queued now
WindowSizes == {Len(WindowBefore(i)) : i \in 1 .. Len(chan) + 1}

\* C11 as stated: while the events of two consecutive frames alternate, each
\* frame's in canonical order, the window never holds more than 2 Frames
\* after any processed event.
C11_WindowBound2 == \A n \in WindowSizes : n <= 2

\* C11: under the same stream the window never holds more than 3 Frames
\* after any processed event: the two frames in progress and the open Frame.
C11_WindowBound3 == \A n \in WindowSizes : n <= 3

\* in steady state, both frames in progress are past Input and the window
\* holds them behind the open Frame
C11_Witness ==
    /\ Len(samples) >= 1
    /\ chan = <<>>
    /\ Len(frames) = 3
    /\ is_accepting_input(frames[1])
    /\ \A i \in 2 .. 3 : ~is_accepting_input(frames[i])

----------------------------------------------------------------------------
(* Properties of the window after a batch, under SpecShrink *)

\* C12: whatever events the window was given before, once one event per
\* stage, Input through RenderingFinished, has been reported in order and
\* drained, the window holds exactly one Frame and that Frame is open.
C12_ShrinkBack ==
    (batch = COUNT /\ chan = <<>>) =>
        (Len(frames) = 1 /\ is_accepting_input(frames[1]))

\* the batch has finished three Frames that were at different stages, and
\* the window is back to one open Frame
C12_Witness ==
    /\ batch = COUNT
    /\ chan = <<>>
    /\ Len(frames) = 1
    /\ Len(samples) = 3
    /\ samples[1] /= samples[2]
    /\ samples[2] /= samples[3]

----------------------------------------------------------------------------
(* Properties of the tick driver, under SpecTick *)

\* C13: a run in a world whose context is not App changes nothing: the
\* queued events stay on the channel in the same order, and the window and
\* the history are as they were.
C13_TickGuard ==
    [][op' = "run_other" => UNCHANGED <<chan, frames, samples>>]_vars

\* a run outside the App world has just left two or more queued events alone
C13_Witness ==
    /\ op = "run_other"
    /\ Len(chan) >= 2
    /\ frames = ProcessTimingEventsSystem_default
    /\ samples = <<>>

\* the Frame of source frame n once its stages up to l have been applied
FrameAt(n, l) ==
    [last_event_type |-> l,
     event_times |-> [s \in TimingEventType |->
                         IF s <= l THEN Tag(n, s) ELSE None]]

\* the window once every event the source has reported has been applied
\* exactly once and in the order reported
WindowOfSource ==
    IF pos[1] = Input THEN <<Frame_default>>
    ELSE IF pos[1] = ScriptingStarted THEN <<FrameAt(FrameNo(1), Input)>>
    ELSE <<Frame_default, FrameAt(FrameNo(1), pos[1] - 1)>>

\* the history once every frame the source has completed has left its sample
SamplesOfSource == [n \in 1 .. rounds[1] |-> SampleOf(n)]

\* C14: a run in App context applies every queued event exactly once and in
\* arrival order and leaves the channel empty; the Frames those events
\* finish are in the history when the run returns; and when the channel was
\* empty at the start, the window and the history are unchanged.
C14_TickDrain ==
    [][op' = "run_app" =>
          /\ chan' = <<>>
          /\ frames' = WindowOfSource'
          /\ samples' = SamplesOfSource'
          /\ chan = <<>> => UNCHANGED <<frames, samples>>]_vars

\* the one run there has been took twelve events off the channel: it
\* finished the first frame and brought the second to ScriptingFinished
C14_Witness ==
    /\ op = "run_app"
    /\ drains = 1
    /\ rounds[1] = 1
    /\ pos[1] = ClientSystemsStarted
    /\ chan = <<>>
    /\ samples = <<SampleOf(1)>>
    /\ Len(frames) = 2

----------------------------------------------------------------------------
(* Properties of concurrent producers, under SpecProducers *)

\* the events of a sequence that producer k sent
SentBy(events, k) == SelectSeq(events, LAMBDA e : SourceOf(e.time) = k)

\* the events producer k has sent so far, in the order it sent them
SentSoFar(k) == [i \in 1 .. pos[k] |-> TimingEvent(i - 1, Tag(k, i - 1))]

\* the s-th event of producer k has been applied
Applied(k, s) ==
    \E i \in DOMAIN applied : applied[i] = TimingEvent(s, Tag(k, s))

\* what was applied and what is queued are, for each producer, exactly the
\* events it sent, each once and in the order sent
NoneLostNoneTwice ==
    \A k \in DOMAIN pos : SentBy(applied \o chan, k) = SentSoFar(k)

\* every event sent so far has been applied
AllApplied == \A k \in DOMAIN pos : \A s \in 0 .. (pos[k] - 1) : Applied(k, s)

\* C15: with several producers sending while enabled and one tick driver
\* draining, every sent event is applied exactly once, the events of one
\* producer are applied in the order sent, and every sent event is
\* eventually applied as long as App-context ticks keep occurring: again
\* and again the driver has applied all that was sent until then.
C15_ConcurrentProducers ==
    /\ []NoneLostNoneTwice
    /\ []<>AllApplied

\* every event was applied, the second producer's first event ahead of the
\* first producer's, and some were sent while the run was draining
C15_Witness ==
    /\ Len(applied) = Producers * ProducerEvents
    /\ SourceOf(applied[1].time) = 2
    /\ SourceOf(applied[2].time) = 1
    /\ pc = "draining"
    /\ chan = <<>>
    /\ samples = <<>>

----------------------------------------------------------------------------
(* Properties of the handles, under SpecHandle *)

\* C16: what a thin handle does is fixed when reporter() is called: a call
\* on a handle obtained while the flag was false queues nothing, also after
\* set_enabled(true); a call on a handle obtained while the flag was true
\* queues one event, also after set_enabled(false); a call on the Reporter
\* queues one event when the flag is true at the call and nothing when it
\* is false; and only reporter() changes the handle.
C16_PreResolution ==
    [][/\ (op' = "thin_report" /\ receiver) =>
              Len(chan') = Len(chan) + (IF acquired THEN 1 ELSE 0)
       /\ op' = "report" =>
              Len(chan') = Len(chan) + (IF ENABLED_FLAG THEN 1 ELSE 0)
       /\ thin' /= thin =>
              (op' = "reporter" /\ thin' /= "None")]_vars

\* a handle obtained while disabled was called after set_enabled(true) and
\* queued nothing
C16_Witness ==
    /\ op = "thin_report"
    /\ ~acquired
    /\ thin = "Disabled"
    /\ ENABLED_FLAG
    /\ receiver
    /\ sent >= 1
    /\ chan = <<>>
    /\ frames = ProcessTimingEventsSystem_default

\* the last step was a call of report_event
Reported == op' \in {"report", "thin_report"}

\* C20 as stated: report_event on a handle whose channel has no Receiver
\* left, or while the flag is false, returns normally and changes neither
\* the channel nor the window nor the history.
C20_SilentWhileFlagOff ==
    [][(Reported /\ (~receiver \/ ~ENABLED_FLAG)) =>
          (UNCHANGED <<chan, frames, samples>> /\ ~panicked')]_vars

\* C20: report_event returns normally and changes neither the channel nor
\* the window nor the history when the channel has no Receiver left, when
\* it is called on the Reporter while the flag is false, and when it is
\* called on a thin handle obtained while the flag was false.
C20_SilentFailure ==
    [][(Reported /\ (\/ ~receiver
                     \/ (op' = "report" /\ ~ENABLED_FLAG)
                     \/ (op' = "thin_report" /\ thin = "Disabled"))) =>
          (UNCHANGED <<chan, frames, samples>> /\ ~panicked')]_vars

\* an enabled handle was called with the flag true after the Reporter was
\* dropped: the call returned and the queue is as it was
C20_Witness ==
    /\ op = "thin_report"
    /\ ~receiver
    /\ thin = "Enabled"
    /\ ENABLED_FLAG
    /\ ~panicked
    /\ sent >= 2
    /\ Len(chan) = 1

----------------------------------------------------------------------------
(* Properties of a wrapped system, under SpecWrapper *)

\* the queued events that the wrapper reported
WrapperEvents ==
    SelectSeq(chan, LAMBDA e : e.event_type \in {on_started, on_finished})

\* C17: the wrapper reports on_started before the wrapped system runs and
\* on_finished after it returns, both through the one handle obtained at
\* the start: its events come in pairs, on_started first and on_finished no
\* earlier in time; between runs every pair is complete, and during a run
\* on_started is queued exactly when the handle is enabled, whatever
\* set_enabled does in the meantime.
C17_Bracketing ==
    LET w == WrapperEvents
    IN  /\ \A i \in 1 .. Len(w) :
               w[i].event_type = IF i % 2 = 1 THEN on_started ELSE on_finished
        /\ \A i \in 1 .. Len(w) : i % 2 = 0 => w[i - 1].time <= w[i].time
        /\ wrap_pc = "idle" => Len(w) % 2 = 0
        /\ wrap_pc = "running" => (Len(w) % 2 = 1 <=> r = "Enabled")

\* a run that began enabled has just reported on_finished although the flag
\* was set to false, and time passed, while the wrapped system ran
C17_Witness ==
    /\ op = "wrap_finish"
    /\ ~ENABLED_FLAG
    /\ sent = 1
    /\ Len(WrapperEvents) = 2
    /\ WrapperEvents[1].time < WrapperEvents[2].time
    /\ Len(chan) = 3

----------------------------------------------------------------------------
(* Properties of the Frames of the window, under SpecWindow *)

\* the slot of the Frame's last accepted stage is set
LastStageSet(f) == f.event_times[f.last_event_type] /= None

\* C19 as stated: for every Frame in the window, the slot of its last
\* accepted stage is set.
C19_LastStageSlot == \A i \in DOMAIN frames : LastStageSet(frames[i])

\* C19: for every Frame in the window that has accepted an event, and so
\* is no longer as Frame::default made it, the slot of its last accepted
\* stage is set.
C19_LastStageSlotOnceAccepted ==
    \A i \in DOMAIN frames :
        frames[i] /= Frame_default => LastStageSet(frames[i])

\* behind the open Frame, which has accepted an Input, are two Frames that
\* never got one
C19_Witness ==
    /\ Len(frames) = 3
    /\ frames[1].last_event_type = Input
    /\ frames[1].event_times[Input] /= None
    /\ \A i \in 2 .. 3 :
           /\ frames[i].last_event_type > Input
           /\ frames[i].event_times[Input] = None
           /\ LastStageSet(frames[i])

----------------------------------------------------------------------------
(* Properties of the window event by event, under SpecSteps *)

\* the front Frame is open and no other Frame of the window is at Input
OpenFront ==
    /\ frames /= <<>>
    /\ is_accepting_input(frames[1])
    /\ \A i \in 2 .. Len(frames) : ~is_accepting_input(frames[i])

\* the step took an event off the channel and applied it
EventStep == Len(chan') < Len(chan)

\* the Frames the step took out of the window
PoppedByStep == Len(pending_samples') - Len(pending_samples)

\* the Frames the step put into the window
PushedByStep == Len(frames') + PoppedByStep - Len(frames)

\* C21: initially and after each event, the front Frame is accepting Input
\* and is the only Frame of the window at Input; processing an event pushes
\* at most one Frame, and only when the event has taken the front Frame out
\* of Input; no other step pushes a Frame.
C21_OpenFront ==
    /\ []OpenFront
    /\ [][IF EventStep
          THEN /\ PushedByStep \in {0, 1}
               /\ PushedByStep = 1 =>
                      ~is_accepting_input(process_event(frames[1], Head(chan)))
          ELSE frames' = frames]_vars

\* an event has just taken the third front Frame out of Input, and a fourth
\* open Frame stands before the three
C21_Witness ==
    /\ pc = "draining"
    /\ Len(frames) = 4
    /\ OpenFront
    /\ frames[1] = Frame_default
    /\ frames[2].last_event_type = ScriptingStarted
    /\ pending_samples = <<>>

\* the Frames of the window once each has been given the event at the head
\* of the channel
GivenHead == [j \in DOMAIN frames |-> process_event(frames[j], Head(chan))]

\* a sequence back to front
RECURSIVE Reverse(_)
Reverse(s) == IF s = <<>> THEN <<>> ELSE Append(Reverse(Tail(s)), Head(s))

\* the samples of the finished Frames among fs, oldest Frame first
SamplesOfFinished(fs) ==
    LET done == Reverse(SelectSeq(fs, is_finished))
    IN  [i \in DOMAIN done |-> timings(done[i])]

\* the Frames among fs that are not finished
Unfinished(fs) == SelectSeq(fs, LAMBDA f : ~is_finished(f))

\* C22: a Frame leaves the window only by being finished: the event that
\* finishes it takes it off the back and makes exactly one sample of it,
\* and the Frames it leaves unfinished all stay, in their order; no other
\* step changes the window; the samples go to the history when the run
\* ends; and no finished Frame is ever left in the window.
C22_FrameRemoval ==
    /\ [](\A i \in DOMAIN frames : ~is_finished(frames[i]))
    /\ [][IF EventStep
          THEN /\ pending_samples' =
                      pending_samples \o SamplesOfFinished(GivenHead)
               /\ \E new \in {<<>>, <<Frame_default>>} :
                      frames' = new \o Unfinished(GivenHead)
          ELSE /\ frames' = frames
               /\ (pc = "draining" /\ pc' = "idle") =>
                      samples' = samples \o pending_samples]_vars

\* the last event of the batch finished two Frames that were at different
\* stages: the run that took it holds both samples and has yet to end
C22_Witness ==
    /\ pc = "draining"
    /\ batch = COUNT
    /\ chan = <<>>
    /\ Len(pending_samples) = 2
    /\ pending_samples[1] /= pending_samples[2]
    /\ samples = <<>>
    /\ frames = <<Frame_default>>

----------------------------------------------------------------------------
(* The drain of the code and the drain as specified, under SpecAlternate *)

\* the batches tried on a state: the queued events, alone and followed by
\* one more event of any stage
BatchesHere ==
    {chan} \cup {Append(chan, TimingEvent(t, now)) : t \in TimingEventType}

\* C23: popping finished Frames after every event, as the code does, and
\* popping them after the whole batch, as specified, end in the same window
\* and hand the same samples, in the same order, to the history.
C23_PopTiming ==
    \A events \in BatchesHere :
        LET code == DrainEvents(frames, <<>>, events)
            specified == SpecifiedDrain(frames, events)
        IN  /\ ~code.panicked
            /\ code.frames = specified.frames
            /\ code.pending = specified.pending

\* the queue holds an event that finishes a Frame and another event after it
C23_Witness ==
    /\ Len(chan) = 2
    /\ chan[1].event_type = RenderingFinished
    /\ frames[Len(frames)].last_event_type = SubmittingGPUCommands
    /\ Len(frames) = 3
    /\ Len(DrainEvents(frames, <<>>, chan).pending) = 1

----------------------------------------------------------------------------
(* The order of the Frames in the window, under SpecSteps *)

\* from the front to the back of the window no Frame is at an earlier stage
\* than the Frame before it
StagesOrdered ==
    \A i, j \in DOMAIN frames :
        i < j => frames[i].last_event_type <= frames[j].last_event_type

\* C24: in every window the stages of the Frames do not decrease from the
\* newest Frame to the oldest; so whenever an event finishes a Frame it
\* finishes every older Frame of the window too, and the samples are handed
\* on oldest Frame first, the order in which the Frames were created.
C24_StageOrdering ==
    /\ []StagesOrdered
    /\ [][EventStep =>
              /\ \A i, j \in DOMAIN frames :
                     (i < j /\ is_finished(GivenHead[i])) =>
                         is_finished(GivenHead[j])
              /\ \A k \in 1 .. PoppedByStep :
                     pending_samples'[Len(pending_samples) + k] =
                         timings(GivenHead[Len(frames) + 1 - k])]_vars

\* behind the open Frame are three Frames, each further on than the one
\* before it
C24_Witness ==
    /\ Len(frames) = 4
    /\ is_accepting_input(frames[1])
    /\ frames[2].last_event_type = ScriptingStarted
    /\ frames[3].last_event_type = ScriptingFinished
    /\ frames[4].last_event_type = ClientSystemsStarted

----------------------------------------------------------------------------
(* The ticks an event sequence is drained in, under SpecPartition *)

\* C27: whatever ticks have drained the events reported so far, at whatever
\* points of the sequence and with ticks that found nothing in between, one
\* more App tick ends in the window and the history that a single App tick
\* given the whole sequence ends in.
C27_TickPartition ==
    /\ ~panicked
    /\ ~RunResult.panicked
    /\ RunResult.frames = twin.frames
    /\ PushSamples(samples, RunResult.pending) = PushSamples(<<>>, twin.pending)

\* the sequence, drained in many ticks, has left more samples than the history
\* keeps, the last tick found nothing, and events are queued for the next
C27_Witness ==
    /\ Len(twin.pending) > MAX_SAMPLES
    /\ Len(samples) = MAX_SAMPLES - 1
    /\ sent = PartStray
    /\ Len(chan) = PartChan
    /\ RunResult.pending /= <<>>

----------------------------------------------------------------------------
(* The timestamps of a sample, under SpecClock *)

\* the timestamps a sample holds do not decrease from stage to stage
TimesOrdered(t) ==
    \A a, b \in TimingEventType :
        (a < b /\ t[a] /= None /\ t[b] /= None) => t[a] <= t[b]

\* the time from Input to RenderingFinished of a sample, where it has both,
\* is not negative
DurationNotNegative(t) ==
    (t[Input] /= None /\ t[RenderingFinished] /= None) =>
        input_to_rendered(t) >= 0

\* C28: with events whose time is taken before they are sent, by threads that
\* run side by side, every sample of the history holds timestamps that do not
\* decrease in stage order, and its time from Input to RenderingFinished is
\* not negative.
C28_TimestampsOrdered ==
    \A i \in 1 .. Len(samples) :
        /\ TimesOrdered(samples[i])
        /\ DurationNotNegative(samples[i])

====
